---- MODULE Spec2Model ----
(***************************************************************************)
(* Trigger execution subsystem of openerp: the restricted code executor    *)
(* (core/executor.py), the trigger registry (core/triggers.py) and the     *)
(* trigger-aware CRUD pipeline (core/crud.py) over the SQLite-backed table *)
(* store (core/database.py).                                               *)
(*                                                                         *)
(* Python values are encoded as follows.  A dict is a function whose       *)
(* domain is its key set.  None, where a dict or a source text is          *)
(* expected, is the record None.  Column values are typed per column:      *)
(* id and the two timestamps are integers, the text columns are strings.   *)
(* A timestamp written by SQLite's CURRENT_TIMESTAMP at clock reading c is *)
(* -c, one written by datetime.now().isoformat() is c: the two formats     *)
(* never yield equal strings.                                              *)
(***************************************************************************)
EXTENDS Integers, Sequences, FiniteSets, TLC

VARIABLES
    triggers,   \* TriggerManager._triggers: table -> (trigger type -> source)
    metadata,   \* __table_metadata: table -> (trigger type -> source or None)
    store,      \* the rows of each table: table -> (id -> row)
    seq,        \* sqlite_sequence: table -> largest rowid ever used
    clock,      \* the reading datetime.now() / CURRENT_TIMESTAMP gives
    calls,      \* the number of calls made so far
    last,       \* the most recent call: its arguments, pre-state and result
    threads     \* the calls in progress on concurrent callers: caller -> frame

vars == <<triggers, metadata, store, seq, clock, calls, last, threads>>

----------------------------------------------------------------------------
(* Bounds *)

MaxId == 2          \* rows per table (autoincrement keys 1..MaxId)
MaxClock == 2       \* clock readings 1..MaxClock
MaxCalls == 2       \* mutation calls per behaviour
MaxRegCalls == 4    \* registry and schema calls per behaviour
MaxLookupCalls == 3 \* registry calls per behaviour while lookups are followed

----------------------------------------------------------------------------
(* Python values *)

None == [kind |-> "none"]

EmptyDict == [k \in {} |-> 0]

\* d[k] = v on a dict: adds or replaces the key
DictSet(d, k, v) == [x \in (DOMAIN d) \cup {k} |-> IF x = k THEN v ELSE d[x]]

\* del d[k] / d.pop(k) on a dict that holds k
DictDel(d, k) == [x \in (DOMAIN d) \ {k} |-> d[x]]

\* d.update(u)
DictUpdate(d, u) == [x \in (DOMAIN d) \cup (DOMAIN u) |-> IF x \in DOMAIN u THEN u[x] ELSE d[x]]

\* repr() of a str, as str(KeyError(k)) shows it
Repr(s) == "'" \o s \o "'"

\* variant: the exception's class name in place of its message
StrOfException_type(e) == e.type

\* str(e) of the exception a snippet or a guard raised
StrOfException(e) ==
    IF e.type = "KeyError" THEN Repr(e.msg) ELSE e.msg

----------------------------------------------------------------------------
(* core/triggers.py: TriggerType *)

ON_INSERT == "on_insert"
ON_UPDATE == "on_update"
ON_DELETE == "on_delete"
TriggerType == {ON_INSERT, ON_UPDATE, ON_DELETE}

----------------------------------------------------------------------------
(* core/executor.py                                                        *)
(*                                                                         *)
(* A source text is [compiles, body]: whether compile_restricted accepts   *)
(* it, and its statements in order.  Statements:                           *)
(*   [op |-> "set", k, v]      record[k] = v                               *)
(*   [op |-> "del", k]         del record[k]                               *)
(*   [op |-> "copyold", k]     record[k] = old_record[k]                   *)
(*   [op |-> "setold", k, v]   old_record[k] = v                           *)
(*   [op |-> "raise", type, msg]   raise type(msg)                         *)
(*   [op |-> "import", name]   import name                                 *)
(*   [op |-> "div0"]           x = 1 / 0                                   *)
(*   [op |-> "rebind", d]      record = d  (a new dict, or None)           *)
(*   [op |-> "delname"]        del record                                  *)
(* The namespace is [record, old_record]; a name is bound to a dict, to    *)
(* None, or is Unbound.                                                    *)
(***************************************************************************)

Unbound == [kind |-> "unbound"]
Dict(d) == [kind |-> "dict", d |-> d]
IsDict(b) == b.kind = "dict"

safe_modules == {"re", "datetime", "json", "math", "decimal", "uuid", "time"}

ImportNotAllowed(name) == "Import of module '" \o name \o "' is not allowed"

\* variant: every module may be imported
safe_import_any(name) == [ok |-> TRUE]

\* safe_import: the allow-list guard; Ok or the ImportError it raises
safe_import(name) ==
    IF name \in safe_modules
    THEN [ok |-> TRUE]
    ELSE [ok |-> FALSE, e |-> [type |-> "ImportError", msg |-> ImportNotAllowed(name)]]

Raised(type, msg) == [ok |-> FALSE, e |-> [type |-> type, msg |-> msg]]
Ran(ns) == [ok |-> TRUE, ns |-> ns]

NameError(n) == Raised("NameError", "name '" \o n \o "' is not defined")
NoneItem(what) == Raised("TypeError", "'NoneType' object " \o what)

\* one statement of the snippet run against the namespace ns
ExecStmt(ns, s) ==
    CASE s.op = "set" ->
           IF ns.record = Unbound THEN NameError("record")
           ELSE IF ns.record = None THEN NoneItem("does not support item assignment")
           ELSE Ran([ns EXCEPT !.record = Dict(DictSet(ns.record.d, s.k, s.v))])
      [] s.op = "del" ->
           IF ns.record = Unbound THEN NameError("record")
           ELSE IF ns.record = None THEN NoneItem("does not support item deletion")
           ELSE IF s.k \notin DOMAIN ns.record.d THEN Raised("KeyError", s.k)
           ELSE Ran([ns EXCEPT !.record = Dict(DictDel(ns.record.d, s.k))])
      [] s.op = "copyold" ->
           IF ns.old_record = None THEN NoneItem("is not subscriptable")
           ELSE IF s.k \notin DOMAIN ns.old_record.d THEN Raised("KeyError", s.k)
           ELSE IF ns.record = Unbound THEN NameError("record")
           ELSE IF ns.record = None THEN NoneItem("does not support item assignment")
           ELSE Ran([ns EXCEPT !.record = Dict(DictSet(ns.record.d, s.k, ns.old_record.d[s.k]))])
      [] s.op = "setold" ->
           IF ns.old_record = None THEN NoneItem("does not support item assignment")
           ELSE Ran([ns EXCEPT !.old_record = Dict(DictSet(ns.old_record.d, s.k, s.v))])
      [] s.op = "raise" -> Raised(s.type, s.msg)
      [] s.op = "import" ->
           IF safe_import(s.name).ok THEN Ran(ns) ELSE safe_import(s.name)
      [] s.op = "div0" -> Raised("ZeroDivisionError", "division by zero")
      [] s.op = "rebind" -> Ran([ns EXCEPT !.record = s.d])
      [] s.op = "delname" ->
           IF ns.record = Unbound THEN NameError("record")
           ELSE Ran([ns EXCEPT !.record = Unbound])

\* exec(byte_code, exec_globals): the statements in order, stopping at the
\* first exception
RECURSIVE Exec(_, _)
Exec(ns, body) ==
    IF body = <<>> THEN Ran(ns)
    ELSE LET r == ExecStmt(ns, Head(body))
         IN  IF r.ok THEN Exec(r.ns, Tail(body)) ELSE r

\* CodeExecutor.validate_code
validate_code(code) ==
    IF code.compiles
    THEN [valid |-> TRUE, errors |-> <<>>]
    ELSE [valid |-> FALSE, errors |-> <<"SyntaxError">>]

\* the exception classes among the sandbox's builtins that do not derive
\* from Exception: the handler at line 155 (except Exception) lets them pass
NotExceptionSubclasses ==
    {"SystemExit", "KeyboardInterrupt", "GeneratorExit", "BaseException"}

\* whether the handler at line 155 catches the exception e
Caught(e) == e.type \notin NotExceptionSubclasses

\* CodeExecutor.execute in mode 'exec'; context is [record, old_record].
\* On success the context returned holds the names still bound.  raised
\* tells that the call was left by an exception instead of returning.
execute(code, context) ==
    IF ~code.compiles
    THEN [raised |-> FALSE, success |-> FALSE, errors |-> <<"SyntaxError">>,
          context |-> context]
    ELSE LET r == Exec(context, code.body)
         IN  IF r.ok
             THEN [raised |-> FALSE, success |-> TRUE, errors |-> <<>>,
                   context |-> r.ns]
             ELSE IF Caught(r.e)
             THEN [raised |-> FALSE, success |-> FALSE,
                   errors |-> <<StrOfException(r.e)>>,
                   context |-> context, exception |-> r.e]
             ELSE [raised |-> TRUE, exception |-> r.e]

----------------------------------------------------------------------------
(* core/triggers.py: TriggerManager                                        *)

\* has_trigger
has_trigger(trg, table_name, trigger_type) ==
    /\ table_name \in DOMAIN trg
    /\ trigger_type \in DOMAIN trg[table_name]

\* get_trigger
get_trigger(trg, table_name, trigger_type) ==
    IF ~has_trigger(trg, table_name, trigger_type)
    THEN None
    ELSE trg[table_name][trigger_type]

\* lines 54-55 of register_trigger: the table's entry is created first
EnsureTable(trg, table_name) ==
    IF table_name \notin DOMAIN trg
    THEN DictSet(trg, table_name, EmptyDict)
    ELSE trg

\* variant: a source registered for a key that holds one is appended to it
StoreTrigger_append(trg, table_name, trigger_type, code) ==
    [trg EXCEPT ![table_name] =
        DictSet(trg[table_name], trigger_type,
                IF trigger_type \in DOMAIN trg[table_name]
                THEN [compiles |-> code.compiles,
                      body |-> trg[table_name][trigger_type].body \o code.body]
                ELSE code)]

\* line 62 of register_trigger: the store of a validated source
StoreTrigger(trg, table_name, trigger_type, code) ==
    [trg EXCEPT ![table_name] = DictSet(trg[table_name], trigger_type, code)]

\* variant: the source is stored before it is validated
register_trigger_unvalidated(trg, table_name, trigger_type, code) ==
    LET t1 == StoreTrigger(EnsureTable(trg, table_name), table_name, trigger_type, code)
    IN  [raised |-> ~validate_code(code).valid, triggers |-> t1]

\* register_trigger: the registry after the call and whether it raised
\* ValueError
register_trigger(trg, table_name, trigger_type, code) ==
    LET t1 == EnsureTable(trg, table_name)
        validation == validate_code(code)
    IN  IF ~validation.valid
        THEN [raised |-> TRUE, triggers |-> t1]
        ELSE [raised |-> FALSE,
              triggers |-> StoreTrigger(t1, table_name, trigger_type, code)]

\* variant: the table's whole entry is dropped
remove_trigger_table(trg, table_name, trigger_type) == DictDel(trg, table_name)

\* remove_trigger
remove_trigger(trg, table_name, trigger_type) ==
    IF table_name \in DOMAIN trg
    THEN [trg EXCEPT ![table_name] = DictDel(trg[table_name], trigger_type)]
    ELSE trg

\* remove_all_triggers
remove_all_triggers(trg, table_name) == DictDel(trg, table_name)

\* variant: the caller's record in place of the one the snippet worked on
ExtractRecord_original(ctx, record) == Dict(record)

\* the record execute_trigger takes from the result context (line 114)
ExtractRecord(ctx, record) ==
    IF ctx.record = Unbound THEN Dict(record) ELSE ctx.record

\* variant: executed is reported without a registered trigger as well
execute_trigger_always_executed(trg, table_name, trigger_type, record, old_record) ==
    IF ~has_trigger(trg, table_name, trigger_type)
    THEN [raised |-> FALSE, success |-> TRUE, record |-> Dict(record),
          executed |-> TRUE]
    ELSE LET result == execute(trg[table_name][trigger_type],
                               [record |-> Dict(record),
                                old_record |-> IF old_record = None THEN None
                                               ELSE Dict(old_record)])
         IN  IF result.raised
             THEN [raised |-> TRUE, exception |-> result.exception]
             ELSE IF ~result.success
             THEN [raised |-> FALSE, success |-> FALSE, errors |-> result.errors,
                   record |-> Dict(record), executed |-> TRUE]
             ELSE [raised |-> FALSE, success |-> TRUE,
                   record |-> ExtractRecord(result.context, record),
                   errors |-> <<>>, executed |-> TRUE]

\* variant: the snippet is handed an empty record
execute_trigger_empty_record(trg, table_name, trigger_type, record, old_record) ==
    IF ~has_trigger(trg, table_name, trigger_type)
    THEN [raised |-> FALSE, success |-> TRUE, record |-> Dict(record),
          executed |-> FALSE]
    ELSE LET result == execute(trg[table_name][trigger_type],
                               [record |-> Dict(EmptyDict),
                                old_record |-> IF old_record = None THEN None
                                               ELSE Dict(old_record)])
         IN  IF result.raised
             THEN [raised |-> TRUE, exception |-> result.exception]
             ELSE IF ~result.success
             THEN [raised |-> FALSE, success |-> FALSE, errors |-> result.errors,
                   record |-> Dict(record), executed |-> TRUE]
             ELSE [raised |-> FALSE, success |-> TRUE,
                   record |-> ExtractRecord(result.context, EmptyDict),
                   errors |-> <<>>, executed |-> TRUE]

\* execute_trigger; record and old_record are dicts, old_record may be None.
\* The record returned is a binding: Dict(d) or whatever the snippet left.
\* raised tells that an exception execute let pass left this call as well.
execute_trigger(trg, table_name, trigger_type, record, old_record) ==
    IF table_name \notin DOMAIN trg
    THEN [raised |-> FALSE, success |-> TRUE, record |-> Dict(record),
          executed |-> FALSE]
    ELSE IF trigger_type \notin DOMAIN trg[table_name]
    THEN [raised |-> FALSE, success |-> TRUE, record |-> Dict(record),
          executed |-> FALSE]
    ELSE LET code == trg[table_name][trigger_type]
             context == [record |-> Dict(record),
                         old_record |-> IF old_record = None \/ old_record = EmptyDict
                                        THEN None ELSE Dict(old_record)]
             result == execute(code, context)
         IN  IF result.raised
             THEN [raised |-> TRUE, exception |-> result.exception]
             ELSE IF ~result.success
             THEN [raised |-> FALSE, success |-> FALSE, errors |-> result.errors,
                   record |-> Dict(record), executed |-> TRUE]
             ELSE [raised |-> FALSE, success |-> TRUE,
                   record |-> ExtractRecord(result.context, record),
                   errors |-> <<>>, executed |-> TRUE]

----------------------------------------------------------------------------
(* core/database.py: a table as create_table builds it                     *)
(*   create_table(t, {'name': 'TEXT NOT NULL',                             *)
(*                    'status': "TEXT DEFAULT 'new'"}, ...)                *)
(* and the SQL statements CRUDManager sends through Database.execute.      *)

Columns == {"id", "name", "status", "created_at", "updated_at"}
NotNullColumns == {"name"}
StatusDefault == "new"

SqlNow(c) == 0 - c      \* CURRENT_TIMESTAMP at clock reading c
IsoNow(c) == c          \* datetime.now().isoformat() at clock reading c

SqlError(msg) == [ok |-> FALSE, msg |-> msg]

Max(a, b) == IF a >= b THEN a ELSE b

\* INSERT INTO "t" (fields) VALUES (...): rows is the table, sq its
\* sqlite_sequence entry, rec the dict whose keys are the column list
SqlInsert(rows, sq, rec, now) ==
    IF DOMAIN rec = {} THEN SqlError("near \")\": syntax error")
    ELSE IF ~(DOMAIN rec \subseteq Columns) THEN SqlError("table has no column named")
    ELSE IF ~(NotNullColumns \subseteq DOMAIN rec) THEN SqlError("NOT NULL constraint failed")
    ELSE IF "id" \in DOMAIN rec /\ rec["id"] \in DOMAIN rows
         THEN SqlError("UNIQUE constraint failed")
    ELSE LET rowid == IF "id" \in DOMAIN rec THEN rec["id"] ELSE sq + 1
             row == [c \in Columns |->
                        IF c = "id" THEN rowid
                        ELSE IF c \in DOMAIN rec THEN rec[c]
                        ELSE IF c = "status" THEN StatusDefault
                        ELSE SqlNow(now)]
         IN  [ok |-> TRUE, rows |-> DictSet(rows, rowid, row),
              seq |-> Max(sq, rowid), lastrowid |-> rowid]

\* UPDATE "t" SET f = ?, ... WHERE id = ?
SqlUpdate(rows, delta, record_id) ==
    IF DOMAIN delta = {} THEN SqlError("near \"WHERE\": syntax error")
    ELSE IF ~(DOMAIN delta \subseteq Columns) THEN SqlError("no such column")
    ELSE IF record_id \notin DOMAIN rows THEN [ok |-> TRUE, rows |-> rows]
    ELSE [ok |-> TRUE,
          rows |-> [rows EXCEPT ![record_id] = DictUpdate(rows[record_id], delta)]]

\* DELETE FROM "t" WHERE id = ?
SqlDelete(rows, record_id) ==
    IF record_id \in DOMAIN rows THEN DictDel(rows, record_id) ELSE rows

----------------------------------------------------------------------------
(* core/crud.py: CRUDManager                                               *)
(* Each operator gives the outcome of one call: the dict returned          *)
(* (result), whether an exception left the call instead (raised), the      *)
(* rows and sequence of the table afterwards, whether an SQL write was     *)
(* issued (wrote), the dict the statement was built from (persisted) and   *)
(* what execute_trigger returned (trigger_result; None when the call ended *)
(* before the trigger phase or execute_trigger was left by an exception).  *)

NotFound(record_id) == "Record with id " \o ToString(record_id) \o " not found"

\* variant: a key without a row reads as an empty record
get_by_id_lenient(rows, record_id) ==
    [success |-> TRUE,
     record |-> IF record_id \in DOMAIN rows THEN rows[record_id] ELSE EmptyDict]

\* get_by_id
get_by_id(rows, record_id) ==
    IF record_id \in DOMAIN rows
    THEN [success |-> TRUE, record |-> rows[record_id]]
    ELSE [success |-> FALSE, errors |-> <<NotFound(record_id)>>]

Outcome(result, raised, rows, sq, wrote, persisted, trigger_result) ==
    [result |-> result, raised |-> raised, rows |-> rows, seq |-> sq,
     wrote |-> wrote, persisted |-> persisted, trigger_result |-> trigger_result]

\* lines 105-136 of insert: the INSERT built from the record the trigger
\* phase returned
InsertPersist(rows, sq, now, trigger_result) ==
    LET modified_record == trigger_result.record.d
        r == SqlInsert(rows, sq, modified_record, now)
    IN  IF r.ok
        THEN Outcome([success |-> TRUE, id |-> r.lastrowid,
                      record |-> DictSet(modified_record, "id", r.lastrowid),
                      trigger_executed |-> trigger_result.executed],
                     FALSE, r.rows, r.seq, TRUE, modified_record, trigger_result)
        ELSE Outcome([success |-> FALSE, errors |-> <<r.msg>>, id |-> None],
                     FALSE, rows, sq, TRUE, modified_record, trigger_result)

\* insert
insert(trg, rows, sq, now, table_name, record) ==
    LET trigger_result == execute_trigger(trg, table_name, ON_INSERT, record, None)
    IN  IF trigger_result.raised
        THEN Outcome(None, TRUE, rows, sq, FALSE, None, None)
        ELSE IF ~trigger_result.success
        THEN Outcome([success |-> FALSE, errors |-> trigger_result.errors, id |-> None],
                     FALSE, rows, sq, FALSE, None, trigger_result)
        ELSE IF ~IsDict(trigger_result.record)
        THEN Outcome(None, TRUE, rows, sq, FALSE, None, trigger_result)    \* .keys() raises
        ELSE InsertPersist(rows, sq, now, trigger_result)

\* variant: every field of the record but id and created_at
fields_to_update_all(modified_record, old_record) ==
    [k \in DOMAIN modified_record \ {"id", "created_at"} |-> modified_record[k]]

\* line 188-190 of update: the fields that changed
fields_to_update(modified_record, old_record) ==
    LET ks == {k \in DOMAIN modified_record :
                  /\ k \notin {"id", "created_at"}
                  /\ (k \notin DOMAIN old_record \/ old_record[k] # modified_record[k])}
    IN  [k \in ks |-> modified_record[k]]

\* lines 184-212 of update
UpdatePersist(rows, sq, record_id, old_record, trigger_result) ==
    LET modified_record == trigger_result.record.d
        delta == fields_to_update(modified_record, old_record)
        r == SqlUpdate(rows, delta, record_id)
    IN  IF r.ok
        THEN Outcome([success |-> TRUE, record |-> modified_record,
                      trigger_executed |-> trigger_result.executed],
                     FALSE, r.rows, sq, TRUE, delta, trigger_result)
        ELSE Outcome([success |-> FALSE, errors |-> <<r.msg>>],
                     FALSE, rows, sq, TRUE, delta, trigger_result)

\* variant: the outcome of the trigger is not looked at before persisting
update_unchecked(trg, rows, sq, now, table_name, record_id, updates) ==
    LET old_record == get_by_id(rows, record_id)
    IN  IF ~old_record.success
        THEN Outcome(old_record, FALSE, rows, sq, FALSE, None, None)
        ELSE LET new_record == DictSet(DictUpdate(old_record.record, updates),
                                       "updated_at", IsoNow(now))
                 trigger_result == execute_trigger(trg, table_name, ON_UPDATE,
                                                   new_record, old_record.record)
             IN  IF trigger_result.raised
                 THEN Outcome(None, TRUE, rows, sq, FALSE, None, None)
                 ELSE UpdatePersist(rows, sq, record_id, old_record.record, trigger_result)

\* variant: the snippet works on the pipeline's own old record, and the
\* delta is taken against what the snippet left in it
update_after_read_aliased(trg, rows, sq, now, table_name, record_id, updates, old_record) ==
    LET new_record == DictSet(DictUpdate(old_record.record, updates),
                              "updated_at", IsoNow(now))
        trigger_result == execute_trigger(trg, table_name, ON_UPDATE,
                                          new_record, old_record.record)
        run == IF has_trigger(trg, table_name, ON_UPDATE)
               THEN Exec([record |-> Dict(new_record),
                          old_record |-> Dict(old_record.record)],
                         trg[table_name][ON_UPDATE].body)
               ELSE Ran([record |-> Dict(new_record),
                         old_record |-> Dict(old_record.record)])
    IN  IF trigger_result.raised
        THEN Outcome(None, TRUE, rows, sq, FALSE, None, None)
        ELSE IF ~trigger_result.success
        THEN Outcome([success |-> FALSE, errors |-> trigger_result.errors],
                     FALSE, rows, sq, FALSE, None, trigger_result)
        ELSE IF ~IsDict(trigger_result.record)
        THEN Outcome(None, TRUE, rows, sq, FALSE, None, trigger_result)
        ELSE UpdatePersist(rows, sq, record_id, run.ns.old_record.d, trigger_result)

\* lines 163-212 of update: what follows the read of the stored row;
\* old_record is what get_by_id returned, rows the table at the time of the
\* UPDATE statement
update_after_read(trg, rows, sq, now, table_name, record_id, updates, old_record) ==
    LET new_record == DictSet(DictUpdate(old_record.record, updates),
                              "updated_at", IsoNow(now))
        trigger_result == execute_trigger(trg, table_name, ON_UPDATE,
                                          new_record, old_record.record)
    IN  IF trigger_result.raised
        THEN Outcome(None, TRUE, rows, sq, FALSE, None, None)
        ELSE IF ~trigger_result.success
        THEN Outcome([success |-> FALSE, errors |-> trigger_result.errors],
                     FALSE, rows, sq, FALSE, None, trigger_result)
        ELSE IF ~IsDict(trigger_result.record)
        THEN Outcome(None, TRUE, rows, sq, FALSE, None, trigger_result)   \* .items() raises
        ELSE UpdatePersist(rows, sq, record_id, old_record.record, trigger_result)

\* update
update(trg, rows, sq, now, table_name, record_id, updates) ==
    LET old_record == get_by_id(rows, record_id)
    IN  IF ~old_record.success
        THEN Outcome(old_record, FALSE, rows, sq, FALSE, None, None)
        ELSE update_after_read(trg, rows, sq, now, table_name, record_id, updates,
                               old_record)

\* variant: the record the snippet worked on is returned as deleted_record
delete_snippet_record(trg, rows, sq, table_name, record_id) ==
    LET old_record == get_by_id(rows, record_id)
    IN  IF ~old_record.success
        THEN Outcome(old_record, FALSE, rows, sq, FALSE, None, None)
        ELSE LET trigger_result == execute_trigger(trg, table_name, ON_DELETE,
                                                   old_record.record, old_record.record)
             IN  IF trigger_result.raised
                 THEN Outcome(None, TRUE, rows, sq, FALSE, None, None)
                 ELSE IF ~trigger_result.success
                 THEN Outcome([success |-> FALSE, errors |-> trigger_result.errors],
                              FALSE, rows, sq, FALSE, None, trigger_result)
                 ELSE Outcome([success |-> TRUE,
                               deleted_record |-> trigger_result.record.d,
                               trigger_executed |-> trigger_result.executed],
                              FALSE, SqlDelete(rows, record_id), sq, TRUE, None, trigger_result)

\* lines 233-263 of delete: what follows the read of the stored row;
\* old_record is what get_by_id returned, rows the table at the time of the
\* DELETE statement
delete_after_read(trg, rows, sq, table_name, record_id, old_record) ==
    LET trigger_result == execute_trigger(trg, table_name, ON_DELETE,
                                          old_record.record, old_record.record)
    IN  IF trigger_result.raised
        THEN Outcome(None, TRUE, rows, sq, FALSE, None, None)
        ELSE IF ~trigger_result.success
        THEN Outcome([success |-> FALSE, errors |-> trigger_result.errors],
                     FALSE, rows, sq, FALSE, None, trigger_result)
        ELSE Outcome([success |-> TRUE, deleted_record |-> old_record.record,
                      trigger_executed |-> trigger_result.executed],
                     FALSE, SqlDelete(rows, record_id), sq, TRUE, None, trigger_result)

\* delete
delete(trg, rows, sq, table_name, record_id) ==
    LET old_record == get_by_id(rows, record_id)
    IN  IF ~old_record.success
        THEN Outcome(old_record, FALSE, rows, sq, FALSE, None, None)
        ELSE delete_after_read(trg, rows, sq, table_name, record_id, old_record)

----------------------------------------------------------------------------
(* core/crud.py: _load_triggers_from_metadata / reload_triggers            *)

\* the order in which SELECT table_name FROM __table_metadata lists tables:
\* the scan runs over the primary-key index on table_name
TableOrder == <<"A", "ACME$A", "ACME$B", "B">>
TypeOrder == <<ON_INSERT, ON_UPDATE, ON_DELETE>>

\* Database.list_tables
list_tables(md) == SelectSeq(TableOrder, LAMBDA t : t \in DOMAIN md)

\* the (table, trigger type, source) registrations the loop performs, in order
RECURSIVE Registrations(_, _, _)
Registrations(md, tables, i) ==
    IF tables = <<>> THEN <<>>
    ELSE IF i > Len(TypeOrder) THEN Registrations(md, Tail(tables), 1)
    ELSE LET code == md[Head(tables)][TypeOrder[i]]
         IN  IF code = None
             THEN Registrations(md, tables, i + 1)
             ELSE <<[table_name |-> Head(tables), trigger_type |-> TypeOrder[i],
                     code |-> code]>> \o Registrations(md, tables, i + 1)

\* the registrations applied one by one; the first ValueError ends the loop
RECURSIVE RegisterAll(_, _)
RegisterAll(trg, regs) ==
    IF regs = <<>> THEN [raised |-> FALSE, triggers |-> trg]
    ELSE LET r == register_trigger(trg, Head(regs).table_name,
                                   Head(regs).trigger_type, Head(regs).code)
         IN  IF r.raised THEN r ELSE RegisterAll(r.triggers, Tail(regs))

\* _load_triggers_from_metadata
load_triggers_from_metadata(trg, md) ==
    RegisterAll(trg, Registrations(md, list_tables(md), 1))

\* variant: the registry is left as it is
reload_triggers_nothing(trg, md) == [raised |-> FALSE, triggers |-> trg]

\* reload_triggers
reload_triggers(trg, md) == load_triggers_from_metadata(trg, md)

----------------------------------------------------------------------------
(* Source texts used as triggers *)

Src(body) == [compiles |-> TRUE, body |-> body]
Set(k, v) == [op |-> "set", k |-> k, v |-> v]
Raise(type, msg) == [op |-> "raise", type |-> type, msg |-> msg]
Import(name) == [op |-> "import", name |-> name]

Msg == "Salary cannot be negative"

Pass == Src(<<>>)                                    \* pass
SetStatus == Src(<<Set("status", "pending")>>)       \* record['status'] = 'pending'
SetId == Src(<<Set("id", 2)>>)                       \* record['id'] = 2
Reject == Src(<<Raise("ValueError", Msg)>>)          \* raise ValueError(Msg)
SetThenReject == Src(<<Set("status", "pending"), Raise("ValueError", Msg)>>)
ImportOs == Src(<<Import("os")>>)                    \* import os
SetThenImportOs == Src(<<Set("status", "pending"), Import("os")>>)
RejectThenImportOs == Src(<<Raise("ValueError", Msg), Import("os")>>)
ImportMath == Src(<<Import("math"), Set("status", "pending")>>)
DivZero == Src(<<[op |-> "div0"]>>)                  \* x = 1 / 0
RejectLikeImport == Src(<<Raise("ValueError", ImportNotAllowed("os"))>>)
SetThenDelName == Src(<<Set("status", "pending"), [op |-> "delname"]>>)
CopyOldStamp == Src(<<[op |-> "copyold", k |-> "updated_at"]>>)
SetOld == Src(<<[op |-> "setold", k |-> "status", v |-> "pending"]>>)
Broken == [compiles |-> FALSE, body |-> <<>>]        \* x =
Exit == Src(<<Raise("SystemExit", Msg)>>)            \* raise SystemExit(Msg)
ExitThenImportOs == Src(<<Raise("SystemExit", Msg), Import("os")>>)
RebindNone == Src(<<[op |-> "rebind", d |-> None]>>) \* record = None
\* old_record['status'] = 'pending'; record['status'] = old_record['status']
SetOldThenCopy == Src(<<[op |-> "setold", k |-> "status", v |-> "pending"],
                        [op |-> "copyold", k |-> "status"]>>)

InsertSnippets == {Pass, SetStatus, SetId, Reject, SetThenReject, ImportOs,
                   SetThenImportOs, RejectThenImportOs, RejectLikeImport,
                   ImportMath, DivZero, SetThenDelName}
UpdateSnippets == {Pass, SetStatus, Reject, ImportOs, RejectThenImportOs,
                   CopyOldStamp, SetOld, ExitThenImportOs}
DeleteSnippets == {Pass, SetStatus, Reject, ImportOs}

SnippetsFor(e) ==
    CASE e = ON_INSERT -> InsertSnippets
      [] e = ON_UPDATE -> UpdateSnippets
      [] e = ON_DELETE -> DeleteSnippets

NoTriggers == [e \in TriggerType |-> None]

\* the trigger sources a table is created with: at most one of the three
TableTriggers ==
    {NoTriggers} \cup
    UNION {{[NoTriggers EXCEPT ![e] = s] : s \in SnippetsFor(e)} : e \in TriggerType}

----------------------------------------------------------------------------
(* The mutation pipeline: a database holding table "A", created with the   *)
(* trigger sources of TableTriggers, and a CRUDManager constructed over it *)
(* (its constructor loads the triggers from the metadata).                 *)

TextVals == {"a", "b"}

\* the dicts callers pass to insert
InsertInputs ==
    {[name |-> v] : v \in TextVals}
    \cup {[name |-> "a", status |-> v] : v \in TextVals}
    \cup {[status |-> "a"]}
    \cup {[name |-> "a", id |-> i] : i \in 1..MaxId}
    \cup {[name |-> "a", bogus |-> "a"]}
    \cup {[name |-> "a", updated_at |-> IsoNow(1)]}

\* the dicts callers pass to update
UpdateInputs ==
    {[status |-> v] : v \in TextVals}
    \cup {[name |-> "b"], [name |-> "b", status |-> "b"]}
    \cup {[id |-> 2], [created_at |-> IsoNow(1)], [updated_at |-> IsoNow(1)],
          [bogus |-> "a"], EmptyDict}

NoCall == [op |-> "none"]

CrudInit ==
    /\ metadata \in {[t \in {"A"} |-> tt] : tt \in TableTriggers}
    /\ triggers = load_triggers_from_metadata(EmptyDict, metadata).triggers
    /\ store = [t \in {"A"} |-> EmptyDict]
    /\ seq = [t \in {"A"} |-> 0]
    /\ clock = 1
    /\ calls = 0
    /\ last = NoCall
    /\ threads = EmptyDict

\* what a call leaves in store, seq and last
Returns(op, table_name, args, trigger_type, out) ==
    /\ store' = [store EXCEPT ![table_name] = out.rows]
    /\ seq' = [seq EXCEPT ![table_name] = out.seq]
    /\ calls' = calls + 1
    /\ last' = [op |-> op, table_name |-> table_name, args |-> args,
                trigger |-> get_trigger(triggers, table_name, trigger_type),
                before |-> store[table_name], seq_before |-> seq[table_name],
                now |-> clock, trigger_result |-> out.trigger_result,
                result |-> out.result, raised |-> out.raised,
                wrote |-> out.wrote, persisted |-> out.persisted]
    /\ UNCHANGED <<triggers, metadata, clock, threads>>

Insert(table_name, record) ==
    /\ calls < MaxCalls
    /\ seq[table_name] < MaxId
    /\ Returns("insert", table_name, [record |-> record], ON_INSERT,
               insert(triggers, store[table_name], seq[table_name], clock,
                      table_name, record))

Update(table_name, record_id, updates) ==
    /\ calls < MaxCalls
    /\ Returns("update", table_name, [record_id |-> record_id, updates |-> updates],
               ON_UPDATE,
               update(triggers, store[table_name], seq[table_name], clock,
                      table_name, record_id, updates))

Delete(table_name, record_id) ==
    /\ calls < MaxCalls
    /\ Returns("delete", table_name, [record_id |-> record_id], ON_DELETE,
               delete(triggers, store[table_name], seq[table_name],
                      table_name, record_id))

\* time passes between calls
Tick ==
    /\ clock < MaxClock
    /\ clock' = clock + 1
    /\ UNCHANGED <<triggers, metadata, store, seq, calls, last, threads>>

CrudNext ==
    \/ \E t \in DOMAIN store, r \in InsertInputs : Insert(t, r)
    \/ \E t \in DOMAIN store, i \in 1..MaxId, u \in UpdateInputs : Update(t, i, u)
    \/ \E t \in DOMAIN store, i \in 1..MaxId : Delete(t, i)
    \/ Tick

CrudSpec == CrudInit /\ [][CrudNext]_vars

TypeOK ==
    /\ clock \in 1..MaxClock
    /\ calls \in 0..Max(MaxCalls, Max(MaxRegCalls, MaxLookupCalls))

----------------------------------------------------------------------------
(* The mutation pipeline over a table that holds a row: a CRUDManager      *)
(* constructed over a database whose table "A" was populated earlier.      *)

\* the trigger sources of the populated table
StoredSnippetsFor(e) ==
    CASE e = ON_INSERT -> {Pass, RebindNone}
      [] e = ON_UPDATE -> {Pass, SetStatus, Reject, SetOld, SetOldThenCopy, Exit}
      [] e = ON_DELETE -> {Pass, SetStatus, Reject, SetOld, SetOldThenCopy, Exit}

StoredTriggers ==
    {NoTriggers} \cup
    UNION {{[NoTriggers EXCEPT ![e] = s] : s \in StoredSnippetsFor(e)} : e \in TriggerType}

\* the row the table holds: inserted as {'name': 'a'} at clock reading 1
StoredRow ==
    [id |-> 1, name |-> "a", status |-> StatusDefault,
     created_at |-> SqlNow(1), updated_at |-> SqlNow(1)]

StoredInit ==
    /\ metadata \in {[t \in {"A"} |-> tt] : tt \in StoredTriggers}
    /\ triggers = load_triggers_from_metadata(EmptyDict, metadata).triggers
    /\ store = [t \in {"A"} |-> DictSet(EmptyDict, 1, StoredRow)]
    /\ seq = [t \in {"A"} |-> 1]
    /\ clock = 1
    /\ calls = 0
    /\ last = NoCall
    /\ threads = EmptyDict

StoredSpec == StoredInit /\ [][CrudNext]_vars

----------------------------------------------------------------------------
(* The registry: a CRUDManager constructed over an empty database; the     *)
(* host creates and drops tables, registers and removes triggers by hand   *)
(* and reloads the registry from the table metadata.                       *)

Tables == {"A", "B"}

\* the sources the host registers by hand
HandSources == {Pass, Broken}

\* the trigger sources tables are created with (create_table stores them
\* without validating them)
CreateTriggers ==
    {NoTriggers,
     [NoTriggers EXCEPT ![ON_INSERT] = SetStatus],
     [NoTriggers EXCEPT ![ON_UPDATE] = Broken],
     [NoTriggers EXCEPT ![ON_INSERT] = SetStatus, ![ON_UPDATE] = Broken]}

RegistryInit ==
    /\ metadata = EmptyDict
    /\ triggers = load_triggers_from_metadata(EmptyDict, metadata).triggers
    /\ store = EmptyDict
    /\ seq = EmptyDict
    /\ clock = 1
    /\ calls = 0
    /\ last = NoCall
    /\ threads = EmptyDict

\* Database.create_table
CreateTable(table_name, tt) ==
    /\ calls < MaxRegCalls
    /\ table_name \notin DOMAIN metadata
    /\ metadata' = DictSet(metadata, table_name, tt)
    /\ store' = DictSet(store, table_name, EmptyDict)
    /\ seq' = DictSet(seq, table_name, 0)
    /\ calls' = calls + 1
    /\ last' = [op |-> "create_table", table_name |-> table_name]
    /\ UNCHANGED <<triggers, clock, threads>>

\* Database.drop_table
DropTable(table_name) ==
    /\ calls < MaxRegCalls
    /\ table_name \in DOMAIN metadata
    /\ metadata' = DictDel(metadata, table_name)
    /\ store' = DictDel(store, table_name)
    /\ seq' = DictDel(seq, table_name)
    /\ calls' = calls + 1
    /\ last' = [op |-> "drop_table", table_name |-> table_name]
    /\ UNCHANGED <<triggers, clock, threads>>

\* what a call on the registry leaves in triggers and last
RegistryReturns(op, args, trg, raised) ==
    /\ triggers' = trg
    /\ calls' = calls + 1
    /\ last' = [op |-> op, args |-> args, before |-> triggers, raised |-> raised,
                prev |-> last.op]
    /\ UNCHANGED <<metadata, store, seq, clock, threads>>

RegisterTrigger(table_name, trigger_type, code) ==
    /\ calls < MaxRegCalls
    /\ LET r == register_trigger(triggers, table_name, trigger_type, code)
       IN  RegistryReturns("register_trigger",
                           [table_name |-> table_name, trigger_type |-> trigger_type,
                            code |-> code],
                           r.triggers, r.raised)

RemoveTrigger(table_name, trigger_type) ==
    /\ calls < MaxRegCalls
    /\ RegistryReturns("remove_trigger",
                       [table_name |-> table_name, trigger_type |-> trigger_type],
                       remove_trigger(triggers, table_name, trigger_type), FALSE)

RemoveAllTriggers(table_name) ==
    /\ calls < MaxRegCalls
    /\ RegistryReturns("remove_all_triggers", [table_name |-> table_name],
                       remove_all_triggers(triggers, table_name), FALSE)

ReloadTriggers ==
    /\ calls < MaxRegCalls
    /\ LET r == reload_triggers(triggers, metadata)
       IN  RegistryReturns("reload_triggers", EmptyDict, r.triggers, r.raised)

RegistryNext ==
    \/ \E t \in Tables, tt \in CreateTriggers : CreateTable(t, tt)
    \/ \E t \in Tables : DropTable(t)
    \/ \E t \in Tables, e \in TriggerType, c \in HandSources : RegisterTrigger(t, e, c)
    \/ \E t \in Tables, e \in TriggerType : RemoveTrigger(t, e)
    \/ \E t \in Tables : RemoveAllTriggers(t)
    \/ ReloadTriggers

RegistrySpec == RegistryInit /\ [][RegistryNext]_vars

----------------------------------------------------------------------------
(* Lookups during a registration: the host registers and removes triggers  *)
(* one call after the other; a registration may also be followed through   *)
(* its two steps (lines 54-60, then the store of line 62) while a second   *)
(* caller looks the registry up with get_trigger (the membership test of   *)
(* line 132, then the read of line 134).                                   *)

Quiescent == threads = EmptyDict

LookupInit ==
    /\ metadata \in {EmptyDict,
                     [t \in {"A"} |-> [NoTriggers EXCEPT ![ON_INSERT] = SetStatus]]}
    /\ triggers = load_triggers_from_metadata(EmptyDict, metadata).triggers
    /\ store = [t \in DOMAIN metadata |-> EmptyDict]
    /\ seq = [t \in DOMAIN metadata |-> 0]
    /\ clock = 1
    /\ calls = 0
    /\ last = NoCall
    /\ threads = EmptyDict

\* lines 54-60 of register_trigger for a source that passes validation
BeginRegister(table_name, trigger_type, code) ==
    /\ calls < MaxLookupCalls
    /\ Quiescent
    /\ validate_code(code).valid
    /\ triggers' = EnsureTable(triggers, table_name)
    /\ threads' = [writer |-> [table_name |-> table_name, trigger_type |-> trigger_type,
                               code |-> code, before |-> triggers, pc |-> "store"]]
    /\ UNCHANGED <<metadata, store, seq, clock, calls, last>>

\* line 62 of register_trigger, and its return
EndRegister ==
    /\ "writer" \in DOMAIN threads
    /\ threads["writer"].pc = "store"
    /\ LET w == threads["writer"]
       IN  /\ triggers' = StoreTrigger(triggers, w.table_name, w.trigger_type, w.code)
           /\ last' = [op |-> "register_trigger",
                       args |-> [table_name |-> w.table_name,
                                 trigger_type |-> w.trigger_type, code |-> w.code],
                       before |-> w.before, raised |-> FALSE, prev |-> last.op]
    /\ calls' = calls + 1
    /\ threads' = [threads EXCEPT !["writer"].pc = "done"]
    /\ UNCHANGED <<metadata, store, seq, clock>>

\* line 132 of get_trigger on the second caller, while the registration is
\* between its two steps
StartLookup(table_name, trigger_type) ==
    /\ "writer" \in DOMAIN threads
    /\ threads["writer"].pc = "store"
    /\ "reader" \notin DOMAIN threads
    /\ threads' = DictSet(threads, "reader",
                          IF has_trigger(triggers, table_name, trigger_type)
                          THEN [table_name |-> table_name, trigger_type |-> trigger_type,
                                pc |-> "read"]
                          ELSE [table_name |-> table_name, trigger_type |-> trigger_type,
                                pc |-> "done", result |-> None])
    /\ UNCHANGED <<triggers, metadata, store, seq, clock, calls, last>>

\* line 134 of get_trigger
ReadLookup ==
    /\ "reader" \in DOMAIN threads
    /\ threads["reader"].pc = "read"
    /\ LET r == threads["reader"]
       IN  threads' = [threads EXCEPT !["reader"] =
                          [table_name |-> r.table_name, trigger_type |-> r.trigger_type,
                           pc |-> "done",
                           result |-> triggers[r.table_name][r.trigger_type]]]
    /\ UNCHANGED <<triggers, metadata, store, seq, clock, calls, last>>

\* both callers have their results
Quiesce ==
    /\ "writer" \in DOMAIN threads
    /\ threads["writer"].pc = "done"
    /\ "reader" \in DOMAIN threads => threads["reader"].pc = "done"
    /\ threads' = EmptyDict
    /\ UNCHANGED <<triggers, metadata, store, seq, clock, calls, last>>

\* the sources registered by hand while lookups are followed
LookupSources == {Pass, SetStatus, Broken}

LookupNext ==
    \/ \E t \in Tables, e \in TriggerType, c \in LookupSources :
          Quiescent /\ calls < MaxLookupCalls /\ RegisterTrigger(t, e, c)
    \/ \E t \in Tables, e \in TriggerType :
          Quiescent /\ calls < MaxLookupCalls /\ RemoveTrigger(t, e)
    \/ \E t \in Tables :
          Quiescent /\ calls < MaxLookupCalls /\ RemoveAllTriggers(t)
    \/ \E t \in Tables, e \in TriggerType, c \in LookupSources : BeginRegister(t, e, c)
    \/ \E t \in Tables, e \in TriggerType : StartLookup(t, e)
    \/ ReadLookup
    \/ EndRegister
    \/ Quiesce

LookupSpec == LookupInit /\ [][LookupNext]_vars

----------------------------------------------------------------------------
(* Concurrent callers of one TriggerManager: each caller thread makes one  *)
(* call, and the interpreter may switch threads between any two dict       *)
(* operations of the two calls.  TriggerManager takes no lock.  A step is  *)
(* one source line's operation on _triggers; the frame of a caller holds   *)
(* its call, the line it is at and, once returned, how the call ended.     *)

Callers == {1, 2}

ConcSources == {Pass, SetStatus}

\* the calls a caller may make
RegistryCalls ==
    {[op |-> "register_trigger", table_name |-> t, trigger_type |-> e, code |-> c] :
        t \in Tables, e \in TriggerType, c \in ConcSources}
    \cup {[op |-> "remove_trigger", table_name |-> t, trigger_type |-> e] :
              t \in Tables, e \in TriggerType}
    \cup {[op |-> "remove_all_triggers", table_name |-> t] : t \in Tables}
    \cup {[op |-> o, table_name |-> t, trigger_type |-> e] :
              o \in {"get_trigger", "execute_trigger"}, t \in Tables, e \in TriggerType}

IsWriter(call) ==
    call.op \in {"register_trigger", "remove_trigger", "remove_all_triggers"}

\* the line a call starts at
FirstLine(op) ==
    CASE op = "register_trigger" -> 54
      [] op = "remove_trigger" -> 138
      [] op = "remove_all_triggers" -> 143
      [] op = "get_trigger" -> 126
      [] op = "execute_trigger" -> 88

Idle == [line |-> 0]

ConcInit ==
    /\ metadata \in {EmptyDict,
                     [t \in {"A"} |-> [NoTriggers EXCEPT ![ON_INSERT] = SetStatus]]}
    /\ triggers = load_triggers_from_metadata(EmptyDict, metadata).triggers
    /\ store = [t \in DOMAIN metadata |-> EmptyDict]
    /\ seq = [t \in DOMAIN metadata |-> 0]
    /\ clock = 1
    /\ calls = 0
    /\ last = NoCall
    /\ threads = [p \in Callers |-> Idle]

At(p, line) == threads[p].line = line

\* the caller moves on to another line of its call
Goto(p, line) == threads' = [threads EXCEPT ![p].line = line]

\* the call of caller p ends: by returning result, or by the exception named
Done(p, exception, result) ==
    /\ threads' = [threads EXCEPT ![p] =
                      [call |-> threads[p].call, line |-> -1,
                       raised |-> exception # "", exception |-> exception,
                       result |-> result]]
    /\ calls' = calls + 1

Returned(p) == threads[p].line = -1

StartCall(p, call) ==
    /\ At(p, 0)
    /\ threads' = [threads EXCEPT ![p] = [call |-> call, line |-> FirstLine(call.op)]]
    /\ UNCHANGED <<triggers, metadata, store, seq, clock, calls, last>>

\* register_trigger line 54: if table_name not in self._triggers
RegisterCheck(p) ==
    /\ At(p, 54)
    /\ Goto(p, IF threads[p].call.table_name \notin DOMAIN triggers THEN 55 ELSE 57)
    /\ UNCHANGED <<triggers, metadata, store, seq, clock, calls, last>>

\* register_trigger line 55: self._triggers[table_name] = {}
RegisterCreate(p) ==
    /\ At(p, 55)
    /\ triggers' = DictSet(triggers, threads[p].call.table_name, EmptyDict)
    /\ Goto(p, 57)
    /\ UNCHANGED <<metadata, store, seq, clock, calls, last>>

\* register_trigger lines 57-60: validation, ValueError when it fails
RegisterValidate(p) ==
    /\ At(p, 57)
    /\ IF validate_code(threads[p].call.code).valid
       THEN Goto(p, 62) /\ UNCHANGED calls
       ELSE Done(p, "ValueError", None)
    /\ UNCHANGED <<triggers, metadata, store, seq, clock, last>>

\* register_trigger line 62: self._triggers[table_name][trigger_type] = code
RegisterStore(p) ==
    /\ At(p, 62)
    /\ LET c == threads[p].call
       IN  IF c.table_name \notin DOMAIN triggers
           THEN Done(p, "KeyError", None) /\ UNCHANGED triggers
           ELSE /\ triggers' = StoreTrigger(triggers, c.table_name, c.trigger_type, c.code)
                /\ Done(p, "", None)
    /\ UNCHANGED <<metadata, store, seq, clock, last>>

\* remove_trigger line 138: if table_name in self._triggers
RemoveCheck(p) ==
    /\ At(p, 138)
    /\ IF threads[p].call.table_name \in DOMAIN triggers
       THEN Goto(p, 139) /\ UNCHANGED calls
       ELSE Done(p, "", None)
    /\ UNCHANGED <<triggers, metadata, store, seq, clock, last>>

\* remove_trigger line 139: self._triggers[table_name].pop(trigger_type, None)
RemovePop(p) ==
    /\ At(p, 139)
    /\ LET c == threads[p].call
       IN  IF c.table_name \notin DOMAIN triggers
           THEN Done(p, "KeyError", None) /\ UNCHANGED triggers
           ELSE /\ triggers' = remove_trigger(triggers, c.table_name, c.trigger_type)
                /\ Done(p, "", None)
    /\ UNCHANGED <<metadata, store, seq, clock, last>>

\* remove_all_triggers line 143: self._triggers.pop(table_name, None)
RemoveAll(p) ==
    /\ At(p, 143)
    /\ triggers' = remove_all_triggers(triggers, threads[p].call.table_name)
    /\ Done(p, "", None)
    /\ UNCHANGED <<metadata, store, seq, clock, last>>

\* the membership test of the table: execute_trigger line 88, has_trigger
\* line 126
LookupTable(p) ==
    /\ At(p, 88) \/ At(p, 126)
    /\ IF threads[p].call.table_name \in DOMAIN triggers
       THEN Goto(p, IF At(p, 88) THEN 91 ELSE 127) /\ UNCHANGED calls
       ELSE Done(p, "", None)
    /\ UNCHANGED <<triggers, metadata, store, seq, clock, last>>

\* the membership test of the trigger type in self._triggers[table_name]:
\* execute_trigger line 91, has_trigger line 127
LookupType(p) ==
    /\ At(p, 91) \/ At(p, 127)
    /\ LET c == threads[p].call
       IN  IF c.table_name \notin DOMAIN triggers
           THEN Done(p, "KeyError", None)
           ELSE IF c.trigger_type \notin DOMAIN triggers[c.table_name]
           THEN Done(p, "", None)
           ELSE Goto(p, IF At(p, 91) THEN 94 ELSE 134) /\ UNCHANGED calls
    /\ UNCHANGED <<triggers, metadata, store, seq, clock, last>>

\* the read self._triggers[table_name][trigger_type]: execute_trigger
\* line 94, get_trigger line 134; the source read is what get_trigger
\* returns and what execute_trigger runs
LookupRead(p) ==
    /\ At(p, 94) \/ At(p, 134)
    /\ LET c == threads[p].call
       IN  IF \/ c.table_name \notin DOMAIN triggers
              \/ c.trigger_type \notin DOMAIN triggers[c.table_name]
           THEN Done(p, "KeyError", None)
           ELSE Done(p, "", triggers[c.table_name][c.trigger_type])
    /\ UNCHANGED <<triggers, metadata, store, seq, clock, last>>

ConcNext ==
    \/ \E p \in Callers, call \in RegistryCalls : StartCall(p, call)
    \/ \E p \in Callers : RegisterCheck(p)
    \/ \E p \in Callers : RegisterCreate(p)
    \/ \E p \in Callers : RegisterValidate(p)
    \/ \E p \in Callers : RegisterStore(p)
    \/ \E p \in Callers : RemoveCheck(p)
    \/ \E p \in Callers : RemovePop(p)
    \/ \E p \in Callers : RemoveAll(p)
    \/ \E p \in Callers : LookupTable(p)
    \/ \E p \in Callers : LookupType(p)
    \/ \E p \in Callers : LookupRead(p)

ConcSpec == ConcInit /\ [][ConcNext]_vars

----------------------------------------------------------------------------
(* Concurrent callers of one table: two CRUDManagers over the same         *)
(* database, each caller making one update or delete.  A call reads the    *)
(* row with its SELECT (get_by_id), runs its trigger on what it read, and  *)
(* sends its UPDATE or DELETE through Database.execute, which commits that *)
(* one statement; no transaction spans the read and the write.             *)

RowUpdates == {[status |-> "a"], [name |-> "b"]}

\* the calls a caller may make
RowCalls ==
    {[op |-> "update", record_id |-> i, updates |-> u] : i \in 1..MaxId, u \in RowUpdates}
    \cup {[op |-> "delete", record_id |-> i] : i \in 1..MaxId}

RowInit ==
    /\ metadata \in {[t \in {"A"} |-> tt] :
                        tt \in {NoTriggers, [NoTriggers EXCEPT ![ON_UPDATE] = SetStatus]}}
    /\ triggers = load_triggers_from_metadata(EmptyDict, metadata).triggers
    /\ store = [t \in {"A"} |-> DictSet(EmptyDict, 1, StoredRow)]
    /\ seq = [t \in {"A"} |-> 1]
    /\ clock = 1
    /\ calls = 0
    /\ last = NoCall
    /\ threads = [p \in Callers |-> Idle]

RowStart(p, call) ==
    /\ At(p, 0)
    /\ threads' = [threads EXCEPT ![p] =
                      [call |-> call, line |-> IF call.op = "update" THEN 159 ELSE 229]]
    /\ UNCHANGED <<triggers, metadata, store, seq, clock, calls, last>>

\* update line 159, delete line 229: old_record = self.get_by_id(...), and
\* the return of its failure
RowRead(p) ==
    /\ At(p, 159) \/ At(p, 229)
    /\ LET old_record == get_by_id(store["A"], threads[p].call.record_id)
       IN  IF ~old_record.success
           THEN Done(p, "", old_record)
           ELSE /\ threads' = [threads EXCEPT ![p] =
                                  [call |-> threads[p].call,
                                   line |-> IF At(p, 159) THEN 163 ELSE 233,
                                   old_record |-> old_record]]
                /\ UNCHANGED calls
    /\ UNCHANGED <<triggers, metadata, store, seq, clock, last>>

\* the outcome of the rest of caller p's call on the table as it is now
RowOutcome(p) ==
    LET c == threads[p].call
    IN  IF c.op = "update"
        THEN update_after_read(triggers, store["A"], seq["A"], clock, "A",
                               c.record_id, c.updates, threads[p].old_record)
        ELSE delete_after_read(triggers, store["A"], seq["A"], "A",
                               c.record_id, threads[p].old_record)

\* update lines 163-212, delete lines 233-263: the trigger on what was read
\* and the statement on the table as it is now
RowWrite(p) ==
    /\ At(p, 163) \/ At(p, 233)
    /\ \E out \in {RowOutcome(p)} :
          /\ store' = [store EXCEPT !["A"] = out.rows]
          /\ Done(p, IF out.raised THEN "Exception" ELSE "", out.result)
    /\ UNCHANGED <<triggers, metadata, seq, clock, last>>

RowNext ==
    \/ \E p \in Callers, call \in RowCalls : RowStart(p, call)
    \/ \E p \in Callers : RowRead(p)
    \/ \E p \in Callers : RowWrite(p)

RowSpec == RowInit /\ [][RowNext]_vars

----------------------------------------------------------------------------
(* Properties of the mutation pipeline (CrudSpec)                          *)

IsMutation == last.op \in {"insert", "update", "delete"}
ReachedTrigger == IsMutation /\ last.trigger_result # None
Succeeded == IsMutation /\ ~last.raised /\ last.result.success
Failed == IsMutation /\ ~last.raised /\ ~last.result.success
RowsNow == store[last.table_name]

\* the last call ran a registered trigger: one is registered for its event
\* kind and, for update and delete, the row was found
TriggerRan ==
    /\ IsMutation
    /\ last.trigger # None
    /\ last.op = "insert" \/ last.args.record_id \in DOMAIN last.before

\* the record update hands to execute_trigger: the stored row overlaid with
\* the requested fields and stamped
NewRecordOfLast ==
    DictSet(DictUpdate(last.before[last.args.record_id], last.args.updates),
            "updated_at", IsoNow(last.now))

\* the namespace the trigger of the last call started from
ContextOfLast ==
    CASE last.op = "insert" ->
           [record |-> Dict(last.args.record), old_record |-> None]
      [] last.op = "update" ->
           [record |-> Dict(NewRecordOfLast),
            old_record |-> Dict(last.before[last.args.record_id])]
      [] last.op = "delete" ->
           [record |-> Dict(last.before[last.args.record_id]),
            old_record |-> Dict(last.before[last.args.record_id])]

\* the run of the last call's trigger
RunOfLast == Exec(ContextOfLast, last.trigger.body)

\* C1: whenever the trigger execution of an insert, update or delete
\* reports failure, the call issues no storage write, the table holds the
\* same rows with the same values as before the call, and the call returns
\* success=False.
Thm_C1 ==
    (ReachedTrigger /\ ~last.trigger_result.success) =>
        /\ ~last.wrote
        /\ RowsNow = last.before
        /\ ~last.raised
        /\ last.result.success = FALSE

\* an update whose trigger failed while the targeted row exists
Wit_C1 ==
    /\ last.op = "update"
    /\ ReachedTrigger
    /\ ~last.trigger_result.success
    /\ last.args.record_id \in DOMAIN RowsNow

\* C2: when the insert trigger raises a business-rule rejection
\* (raise ValueError(m)), insert adds no row and returns success=False with
\* m in its errors list.
Thm_C2 ==
    (/\ last.op = "insert"
     /\ last.trigger # None
     /\ ~RunOfLast.ok
     /\ RunOfLast.e.type = "ValueError") =>
        /\ RowsNow = last.before
        /\ ~last.raised
        /\ last.result.success = FALSE
        /\ \E i \in 1..Len(last.result.errors) : last.result.errors[i] = RunOfLast.e.msg

\* an insert rejected by its trigger after the snippet changed its record
Wit_C2 ==
    /\ last.op = "insert"
    /\ last.trigger = SetThenReject
    /\ last.result.errors = <<Msg>>

\* C3 as stated: with no trigger registered for the event kind, the call
\* reports trigger_executed=False and the record handed to persistence
\* carries, for every field the caller supplied, exactly the supplied value.
Orig_C3 ==
    (ReachedTrigger /\ last.trigger = None) =>
        /\ last.trigger_result.executed = FALSE
        /\ Succeeded => last.result.trigger_executed = FALSE
        /\ last.op = "insert" =>
             \A k \in DOMAIN last.args.record :
                /\ k \in DOMAIN last.trigger_result.record.d
                /\ last.trigger_result.record.d[k] = last.args.record[k]
        /\ last.op = "update" =>
             \A k \in DOMAIN last.args.updates :
                /\ k \in DOMAIN last.trigger_result.record.d
                /\ last.trigger_result.record.d[k] = last.args.updates[k]

\* C3 (amended): with no trigger registered for the event kind, the call
\* reports trigger_executed=False and the trigger phase returns the record
\* it was given.  For insert that is the caller's dict, and the row stored
\* holds the caller's values, the schema defaults for the columns left out
\* and the key the INSERT produced.  For update it is the stored row
\* overlaid with the caller's fields, except updated_at, which always holds
\* the pipeline's timestamp.  For delete it is the stored row.
Thm_C3 ==
    (ReachedTrigger /\ last.trigger = None) =>
        /\ last.trigger_result.executed = FALSE
        /\ Succeeded => last.result.trigger_executed = FALSE
        /\ last.op = "insert" =>
             /\ last.trigger_result.record = Dict(last.args.record)
             /\ last.persisted = last.args.record
             /\ Succeeded =>
                  /\ last.result.id \in DOMAIN RowsNow
                  /\ last.result.id \notin DOMAIN last.before
                  /\ \A c \in Columns :
                        RowsNow[last.result.id][c] =
                            IF c = "id" THEN last.result.id
                            ELSE IF c \in DOMAIN last.args.record THEN last.args.record[c]
                            ELSE IF c = "status" THEN StatusDefault
                            ELSE SqlNow(last.now)
        /\ last.op = "update" =>
             /\ last.trigger_result.record = Dict(NewRecordOfLast)
             /\ \A k \in DOMAIN last.args.updates \ {"updated_at"} :
                   last.trigger_result.record.d[k] = last.args.updates[k]
             /\ last.trigger_result.record.d["updated_at"] = IsoNow(last.now)
        /\ last.op = "delete" =>
             last.trigger_result.record = Dict(last.before[last.args.record_id])

\* an update without trigger whose caller supplied updated_at, and an insert
\* without trigger that left a defaulted column out
Wit_C3 ==
    /\ last.op = "update"
    /\ last.trigger = None
    /\ Succeeded
    /\ "updated_at" \in DOMAIN last.args.updates
    /\ \E i \in DOMAIN RowsNow : RowsNow[i]["status"] = StatusDefault

\* the keys the statements of a snippet assign or delete in record
Touched(body) ==
    {body[i].k : i \in {j \in 1..Len(body) : body[j].op \in {"set", "del", "copyold"}}}

Orig_C5 ==
    (last.op = "insert" /\ last.trigger # None /\ Succeeded) =>
        LET engine_key == IF "id" \in DOMAIN last.args.record
                          THEN last.args.record["id"]
                          ELSE last.seq_before + 1
        IN  /\ last.result.id = engine_key
            /\ last.result.record["id"] = engine_key
            /\ DOMAIN RowsNow = DOMAIN last.before \cup {engine_key}

DisallowedImports(body) ==
    {body[i].name : i \in {j \in 1..Len(body) :
                              body[j].op = "import" /\ body[j].name \notin safe_modules}}

----------------------------------------------------------------------------
(* Properties of the registry (RegistrySpec)                               *)

\* C7: register_trigger with a source that fails validation leaves the
\* answers of get_trigger and has_trigger unchanged for every table and
\* trigger type, the key being registered included.
Thm_C7 ==
    (last.op = "register_trigger" /\ ~validate_code(last.args.code).valid) =>
        /\ last.raised
        /\ \A t \in Tables, e \in TriggerType :
              /\ get_trigger(triggers, t, e) = get_trigger(last.before, t, e)
              /\ has_trigger(triggers, t, e) = has_trigger(last.before, t, e)

\* a rejected registration for a key that already held a source
Wit_C7 ==
    /\ last.op = "register_trigger"
    /\ last.raised
    /\ has_trigger(last.before, last.args.table_name, last.args.trigger_type)

\* C9: a reload_triggers call that directly follows another one, the table
\* metadata being unchanged in between, leaves the registry as the first
\* call left it and ends the same way.
Thm_C9 ==
    [][(last.op = "reload_triggers" /\ last'.op = "reload_triggers") =>
          (triggers' = triggers /\ last'.raised = last.raised)]_vars

\* a second reload in a row over metadata that holds a valid and an invalid
\* source, with a hand-registered trigger in the registry
Wit_C9 ==
    /\ last.op = "reload_triggers"
    /\ last.prev = "reload_triggers"
    /\ last.raised
    /\ \E t \in Tables : has_trigger(triggers, t, ON_INSERT)

\* C10: after reload_triggers returns, get_trigger gives, for every table
\* and trigger type, the source the table metadata holds when there is one
\* and None otherwise.
Orig_C10 ==
    (last.op = "reload_triggers" /\ ~last.raised) =>
        \A t \in Tables, e \in TriggerType :
            get_trigger(triggers, t, e) =
                IF t \in DOMAIN metadata THEN metadata[t][e] ELSE None

\* C11: insert, update, delete and register_trigger report every failure as
\* a returned value: none of these calls is left by an exception.
Orig_C11 ==
    (last.op \in {"insert", "update", "delete", "register_trigger"}) => ~last.raised

----------------------------------------------------------------------------
(* Properties of the mutation pipeline over a populated table (StoredSpec) *)

\* C12: execute never lets a fault leave it: whenever the snippet of a call
\* raises an exception it can construct from the names of the sandbox,
\* execute returns a result with success=False and a non-empty errors list,
\* and so the mutation call returns as well.
Orig_C12 ==
    (TriggerRan /\ ~RunOfLast.ok) =>
        LET result == execute(last.trigger, ContextOfLast)
        IN  /\ ~result.raised
            /\ result.success = FALSE
            /\ result.errors # <<>>
            /\ ~last.raised

\* C13: update and delete on a primary key that has no row end before the
\* trigger phase: execute_trigger is not called, no storage write is issued,
\* the rows are as before, and the call returns success=False with the
\* not-found message.
Thm_C13 ==
    (/\ last.op \in {"update", "delete"}
     /\ last.args.record_id \notin DOMAIN last.before) =>
        /\ last.trigger_result = None
        /\ ~last.wrote
        /\ RowsNow = last.before
        /\ ~last.raised
        /\ last.result.success = FALSE
        /\ last.result.errors = <<NotFound(last.args.record_id)>>

\* a delete of a missing key on a table that holds another row and has a
\* delete trigger registered
Wit_C13 ==
    /\ last.op = "delete"
    /\ last.trigger # None
    /\ last.args.record_id \notin DOMAIN last.before
    /\ last.before # EmptyDict
    /\ Failed

\* C14: a delete of a stored row whose trigger does not fail, or with no
\* trigger, removes exactly that row, leaves every other row as it was and
\* returns as deleted_record the row as stored before the call, whatever the
\* snippet did to its record; get_by_id of that id fails afterwards.
Thm_C14 ==
    (/\ last.op = "delete"
     /\ last.args.record_id \in DOMAIN last.before
     /\ ReachedTrigger
     /\ last.trigger_result.success) =>
        /\ Succeeded
        /\ last.wrote
        /\ DOMAIN RowsNow = DOMAIN last.before \ {last.args.record_id}
        /\ \A i \in DOMAIN RowsNow : RowsNow[i] = last.before[i]
        /\ last.result.deleted_record = last.before[last.args.record_id]
        /\ ~get_by_id(RowsNow, last.args.record_id).success

\* a delete under a trigger that set status in its record, on a table that
\* held a second row
Wit_C14 ==
    /\ last.op = "delete"
    /\ last.trigger = SetStatus
    /\ Succeeded
    /\ last.trigger_result.record.d["status"] = "pending"
    /\ last.result.deleted_record["status"] # "pending"
    /\ RowsNow # EmptyDict

----------------------------------------------------------------------------
(* Properties of lookups during a registration (LookupSpec)                *)

\* what get_trigger(t, e) answers after the call recorded in c, given what
\* it answered before: the source of a successful register_trigger(t, e, .),
\* None after a removal covering (t, e), the answer before otherwise
AnswerAfter(c, t, e) ==
    IF /\ c.op = "register_trigger"
       /\ ~c.raised
       /\ c.args.table_name = t
       /\ c.args.trigger_type = e
    THEN c.args.code
    ELSE IF /\ c.op = "remove_trigger"
            /\ c.args.table_name = t
            /\ c.args.trigger_type = e
    THEN None
    ELSE IF c.op = "remove_all_triggers" /\ c.args.table_name = t
    THEN None
    ELSE get_trigger(c.before, t, e)

\* the lookup the second caller finished during the registration in
\* progress returned the source the key held before the registration or the
\* source being registered
LookupSeesOldOrNew ==
    ("reader" \in DOMAIN threads /\ threads["reader"].pc = "done") =>
        LET r == threads["reader"]
            w == threads["writer"]
        IN  r.result \in
                {get_trigger(w.before, r.table_name, r.trigger_type)} \cup
                (IF r.table_name = w.table_name /\ r.trigger_type = w.trigger_type
                 THEN {w.code} ELSE {})

\* C15: the registry holds one source per (table, trigger type).  Every
\* register_trigger, remove_trigger and remove_all_triggers call changes the
\* answers of get_trigger as AnswerAfter tells, so that after any sequence of
\* such calls get_trigger(t, e) is the source of the most recent successful
\* register_trigger(t, e, .) not followed by a removal covering (t, e) and
\* None otherwise; and a lookup taken while a registration is between its
\* steps returns the complete old source or the complete new one.
Thm_C15 ==
    [][/\ (calls' = calls + 1) =>
            \A t \in Tables, e \in TriggerType :
                get_trigger(triggers', t, e) = AnswerAfter(last', t, e)
       /\ (calls' = calls) =>
            \A t \in Tables, e \in TriggerType :
                get_trigger(triggers', t, e) = get_trigger(triggers, t, e)
       /\ LookupSeesOldOrNew']_vars

\* a lookup that tested membership before the store of a re-registration
\* and read after it: it returned the new source, the key held another one
Wit_C15 ==
    /\ "reader" \in DOMAIN threads
    /\ threads["reader"].pc = "done"
    /\ threads["writer"].pc = "done"
    /\ threads["reader"].table_name = threads["writer"].table_name
    /\ threads["reader"].trigger_type = threads["writer"].trigger_type
    /\ threads["reader"].result = threads["writer"].code
    /\ get_trigger(threads["writer"].before, threads["writer"].table_name,
                   threads["writer"].trigger_type)
           \notin {None, threads["writer"].code}
    /\ last.prev = "remove_trigger"

----------------------------------------------------------------------------
(* Properties of concurrent callers of the registry (ConcSpec)             *)

\* the registry the callers started from
InitialRegistry == load_triggers_from_metadata(EmptyDict, metadata).triggers

\* the registry after one call made alone
ApplyCall(trg, call) ==
    CASE call.op = "register_trigger" ->
           register_trigger(trg, call.table_name, call.trigger_type, call.code).triggers
      [] call.op = "remove_trigger" ->
           remove_trigger(trg, call.table_name, call.trigger_type)
      [] call.op = "remove_all_triggers" ->
           remove_all_triggers(trg, call.table_name)
      [] OTHER -> trg

\* the registry after the callers' calls made one after the other in the
\* order given
RECURSIVE ApplyInOrder(_, _)
ApplyInOrder(trg, order) ==
    IF order = <<>> THEN trg
    ELSE ApplyInOrder(ApplyCall(trg, threads[Head(order)].call), Tail(order))

SameAnswers(a, b) ==
    \A t \in Tables, e \in TriggerType : get_trigger(a, t, e) = get_trigger(b, t, e)

\* C16: registry writers are serialized: when the callers' register_trigger,
\* remove_trigger and remove_all_triggers calls have all returned, none of
\* them was ended by an exception, and the registry answers get_trigger as
\* it would after the same calls made one after the other in some order.
Orig_C16 ==
    (\A p \in Callers : Returned(p) /\ IsWriter(threads[p].call)) =>
        /\ \A p \in Callers : ~threads[p].raised
        /\ \E order \in Permutations(Callers) :
              SameAnswers(triggers, ApplyInOrder(InitialRegistry, order))

\* C17: a trigger lookup (execute_trigger, get_trigger) that runs while
\* another caller registers or removes triggers of the table is never ended
\* by an exception: it returns one complete registered source, or proceeds
\* as without a trigger.
Orig_C17 ==
    \A p \in Callers :
        (Returned(p) /\ ~IsWriter(threads[p].call)) =>
            /\ ~threads[p].raised
            /\ threads[p].result \in {None} \cup ConcSources

----------------------------------------------------------------------------
(* Properties of concurrent callers of one table (RowSpec)                 *)

\* the outcome of one call made alone on the table rows
CallAlone(rows, call) ==
    IF call.op = "update"
    THEN update(triggers, rows, seq["A"], clock, "A", call.record_id, call.updates)
    ELSE delete(triggers, rows, seq["A"], "A", call.record_id)

\* the two calls made one after the other, first the call of caller p and
\* then the call of caller q, leave the rows and give the results observed
SequentialAs(p, q) ==
    LET first == CallAlone(DictSet(EmptyDict, 1, StoredRow), threads[p].call)
        second == CallAlone(first.rows, threads[q].call)
    IN  /\ store["A"] = second.rows
        /\ threads[p].result = first.result
        /\ threads[q].result = second.result

\* C18: the read and the write of an update or delete are not torn by a
\* concurrent mutation of the same row: when two concurrent calls have
\* returned, the rows and both results are those of the two calls made one
\* after the other in one of the two orders.
Orig_C18 ==
    (\A p \in Callers : Returned(p)) =>
        \E p, q \in Callers : p # q /\ SequentialAs(p, q)

----------------------------------------------------------------------------
(* Equivalences of the mutation pipeline (StoredSpec)                      *)

\* the last call made again from the state it started in, with the registry
\* trg in place of the one it ran under
LastCallUnder(trg) ==
    CASE last.op = "insert" ->
           insert(trg, last.before, last.seq_before, last.now, last.table_name,
                  last.args.record)
      [] last.op = "update" ->
           update(trg, last.before, last.seq_before, last.now, last.table_name,
                  last.args.record_id, last.args.updates)
      [] last.op = "delete" ->
           delete(trg, last.before, last.seq_before, last.table_name,
                  last.args.record_id)

\* a returned dict without its trigger_executed entry
WithoutExecuted(result) ==
    [k \in DOMAIN result \ {"trigger_executed"} |-> result[k]]

TypeOfLast ==
    CASE last.op = "insert" -> ON_INSERT
      [] last.op = "update" -> ON_UPDATE
      [] last.op = "delete" -> ON_DELETE

\* the registry of the last call with code as the trigger of its event kind
RegistryWith(code) ==
    [triggers EXCEPT ![last.table_name] =
        DictSet(triggers[last.table_name], TypeOfLast, code)]

\* the statements of a snippet that write into old_record
OldWrites(body) == {i \in 1..Len(body) : body[i].op = "setold"}

\* the snippet without its writes into old_record
WithoutOldWrites(code) ==
    [compiles |-> code.compiles,
     body |-> SelectSeq(code.body, LAMBDA st : st.op # "setold")]

\* the outcome of the last call agrees with out in the statement persisted,
\* the rows left and what was returned
SameOutcome(out) ==
    /\ last.persisted = out.persisted
    /\ RowsNow = out.rows
    /\ last.raised = out.raised
    /\ last.result = out.result

\* C20 as stated: what a snippet writes into old_record has no observable
\* effect: an update or delete whose snippet writes into old_record persists
\* the same delta, leaves the same rows and returns the same record as the
\* same call under the snippet without those writes.
Orig_C20 ==
    (/\ last.op \in {"update", "delete"}
     /\ TriggerRan
     /\ OldWrites(last.trigger.body) # {}) =>
        SameOutcome(LastCallUnder(RegistryWith(WithoutOldWrites(last.trigger))))

\* C20 (amended): what a snippet leaves in old_record does not reach the
\* pipeline: an update or delete whose snippet writes into old_record
\* persists the same delta, leaves the same rows and returns the same record
\* as the same call under a snippet that leaves the same record and never
\* touches old_record.  The delta is that of the record the snippet left
\* against the row read before the trigger ran.  Within its run the snippet
\* reads back what it wrote into old_record, and what it copies from there
\* into record is persisted like any other change of record.
Thm_C20 ==
    (/\ last.op \in {"update", "delete"}
     /\ TriggerRan
     /\ OldWrites(last.trigger.body) # {}
     /\ RunOfLast.ok) =>
        /\ SameOutcome(LastCallUnder(RegistryWith(
               Src(<<[op |-> "rebind", d |-> RunOfLast.ns.record]>>))))
        /\ (last.op = "update" /\ Succeeded) =>
              last.persisted = fields_to_update(RunOfLast.ns.record.d,
                                                last.before[last.args.record_id])
        /\ (last.op = "delete") =>
              /\ Succeeded
              /\ last.result.deleted_record = last.before[last.args.record_id]

\* an update under a snippet that wrote status into old_record and copied
\* it from there into record: the row holds the value written
Wit_C20 ==
    /\ last.op = "update"
    /\ last.trigger = SetOldThenCopy
    /\ Succeeded
    /\ RunOfLast.ns.old_record.d["status"] = "pending"
    /\ last.before[last.args.record_id]["status"] # "pending"
    /\ RowsNow[last.args.record_id]["status"] = "pending"
    /\ "status" \in DOMAIN last.persisted

----------------------------------------------------------------------------
(* Further properties of the mutation pipeline (CrudSpec)                  *)

\* the columns the schema declares a default for
DefaultColumns == {"status", "created_at", "updated_at"}

\* C21: on insert the fields the caller left out are filled with their
\* schema defaults before the trigger's context is built: the record the
\* insert snippet starts from holds every column that has a default, and so
\* does the record insert returns.
Orig_C21 ==
    (last.op = "insert" /\ TriggerRan /\ Succeeded) =>
        \A c \in DefaultColumns \ DOMAIN last.args.record :
            /\ c \in DOMAIN ContextOfLast.record.d
            /\ c \in DOMAIN last.result.record

----------------------------------------------------------------------------
(* core/database.py: create_table, and a CRUDManager constructed over an   *)
(* empty database whose tables are created afterwards (SchemaSpec)         *)

MaxSchemaCalls == 3

Str(s) == [kind |-> "str", s |-> s]

\* `not company_name`
Falsy(v) == v = None \/ v = Str("")

\* Database.get_full_table_name
get_full_table_name(table_name, company_name) ==
    IF ~Falsy(company_name) THEN company_name.s \o "$" \o table_name ELSE table_name

\* Database.create_table with _create_global_table and _create_company_table;
\* tt holds the on_insert, on_update and on_delete arguments
create_table(md, table_name, company_name, tt, is_global) ==
    IF ~is_global /\ Falsy(company_name)
    THEN [raised |-> TRUE, metadata |-> md, table_name |-> table_name]
    ELSE LET full == IF is_global THEN table_name
                     ELSE get_full_table_name(table_name, company_name)
         IN  IF full \in DOMAIN md
             THEN [raised |-> TRUE, metadata |-> md, table_name |-> full]
             ELSE [raised |-> FALSE, result |-> TRUE, table_name |-> full,
                   metadata |-> DictSet(md, full, tt)]

BaseNames == {"A"}
CompanyNames == {None, Str(""), Str("ACME")}
SchemaTables == {"A", "ACME$A"}
SchemaTriggers ==
    {NoTriggers,
     [NoTriggers EXCEPT ![ON_INSERT] = SetStatus],
     [NoTriggers EXCEPT ![ON_UPDATE] = SetStatus],
     [NoTriggers EXCEPT ![ON_INSERT] = Broken]}
SchemaInserts == {[name |-> "a"]}
SchemaUpdates == {[status |-> "b"]}

\* Database(":memory:") followed by CRUDManager(db); threads records how many
\* schema calls were made, and the tables that existed at the last call of
\* reload_triggers (called) and at the last one that returned (loaded)
SchemaInit ==
    /\ metadata = EmptyDict
    /\ triggers = load_triggers_from_metadata(EmptyDict, metadata).triggers
    /\ store = EmptyDict
    /\ seq = EmptyDict
    /\ clock = 1
    /\ calls = 0
    /\ last = NoCall
    /\ threads = [schema_calls |-> 0, called |-> {}, loaded |-> {}]

SchemaCreateTable(table_name, company_name, tt, is_global) ==
    /\ threads.schema_calls < MaxSchemaCalls
    /\ \E r \in {create_table(metadata, table_name, company_name, tt, is_global)} :
          /\ metadata' = r.metadata
          /\ store' = IF r.raised THEN store ELSE DictSet(store, r.table_name, EmptyDict)
          /\ seq' = IF r.raised THEN seq ELSE DictSet(seq, r.table_name, 0)
          /\ last' = [op |-> "create_table",
                      args |-> [table_name |-> table_name, company_name |-> company_name,
                                is_global |-> is_global],
                      table_name |-> r.table_name, before |-> metadata,
                      raised |-> r.raised,
                      result |-> IF r.raised THEN None ELSE r.result]
    /\ threads' = [threads EXCEPT !.schema_calls = @ + 1]
    /\ UNCHANGED <<triggers, clock, calls>>

SchemaReload ==
    /\ threads.schema_calls < MaxSchemaCalls
    /\ \E r \in {reload_triggers(triggers, metadata)} :
          /\ triggers' = r.triggers
          /\ last' = [op |-> "reload_triggers", before |-> triggers, raised |-> r.raised]
          /\ threads' = [schema_calls |-> threads.schema_calls + 1,
                         called |-> DOMAIN metadata,
                         loaded |-> IF r.raised THEN threads.loaded ELSE DOMAIN metadata]
    /\ UNCHANGED <<metadata, store, seq, clock, calls>>

\* insert into a table that was never created: the INSERT statement fails in
\* the try block of lines 117-136
SchemaInsertMissing(table_name, record) ==
    /\ calls < MaxCalls
    /\ table_name \notin DOMAIN store
    /\ calls' = calls + 1
    /\ last' = [op |-> "insert", table_name |-> table_name, args |-> [record |-> record],
                trigger |-> get_trigger(triggers, table_name, ON_INSERT),
                before |-> EmptyDict, seq_before |-> 0, now |-> clock,
                trigger_result |-> execute_trigger(triggers, table_name, ON_INSERT,
                                                   record, None),
                result |-> [success |-> FALSE, errors |-> <<"no such table">>,
                            id |-> None],
                raised |-> FALSE, wrote |-> TRUE, persisted |-> record]
    /\ UNCHANGED <<triggers, metadata, store, seq, clock, threads>>

SchemaNext ==
    \/ \E t \in BaseNames, c \in CompanyNames, tt \in SchemaTriggers, g \in BOOLEAN :
          SchemaCreateTable(t, c, tt, g)
    \/ SchemaReload
    \/ \E t \in SchemaTables \ DOMAIN store, r \in SchemaInserts : SchemaInsertMissing(t, r)
    \/ \E t \in DOMAIN store, r \in SchemaInserts : Insert(t, r)
    \/ \E t \in DOMAIN store, u \in SchemaUpdates : Update(t, 1, u)
    \/ \E t \in DOMAIN store : Delete(t, 1)

SchemaSpec == SchemaInit /\ [][SchemaNext]_vars

\* a table insert can write to: the INSERT of an accepted record succeeds
UsableByInsert(table_name) ==
    /\ table_name \in DOMAIN store
    /\ insert(triggers, store[table_name], seq[table_name], clock, table_name,
              [name |-> "a"]).result.success

\* C22: create_table called with a table name and field definitions only
\* (no company_name, is_global left False) on a database that has no such
\* table creates it and returns True; the table is then listed by list_tables
\* and insert can write to it.
Orig_C22 ==
    (/\ last.op = "create_table"
     /\ last.args.company_name = None
     /\ ~last.args.is_global
     /\ last.args.table_name \notin DOMAIN last.before) =>
        /\ ~last.raised
        /\ last.result = TRUE
        /\ \E i \in DOMAIN list_tables(metadata) :
              list_tables(metadata)[i] = last.args.table_name
        /\ UsableByInsert(last.args.table_name)

\* C23: every update that reaches persistence writes the updated_at column:
\* the persisted delta always holds updated_at, whatever the snippet did to
\* the record, and never holds id or created_at.
Orig_C23 ==
    (last.op = "update" /\ ~last.raised /\ last.wrote) =>
        /\ "updated_at" \in DOMAIN last.persisted
        /\ "id" \notin DOMAIN last.persisted
        /\ "created_at" \notin DOMAIN last.persisted

----------------------------------------------------------------------------
(* One mutation call taken step by step (PipeSpec): the statements of      *)
(* insert, update and delete in the order of the source, one action per    *)
(* step.  threads holds the frame of the call in progress and the steps it *)
(* has taken.                                                              *)

\* variant: the statement is sent before the trigger is looked up
Pipeline_persist_first(op) ==
    IF op = "insert" THEN <<"persist", "lookup", "evaluate">>
    ELSE <<"read", "persist", "lookup", "evaluate">>

\* the steps of a call in the order of the source: insert 91-96 then 117-129;
\* update 159, 171-176, 200-206; delete 229, 239-244, 249-257
Pipeline(op) ==
    IF op = "insert" THEN <<"lookup", "evaluate", "persist">>
    ELSE <<"read", "lookup", "evaluate", "persist">>

PipeTriggers ==
    {NoTriggers} \cup
    UNION {{[NoTriggers EXCEPT ![e] = s] : s \in {SetStatus, Reject}} : e \in TriggerType}

PipeCalls ==
    {[op |-> "insert", record |-> r] : r \in {[name |-> "a"], [status |-> "a"]}}
    \cup {[op |-> "update", record_id |-> i, updates |-> u] :
             i \in 1..MaxId, u \in RowUpdates}
    \cup {[op |-> "delete", record_id |-> i] : i \in 1..MaxId}

NoFrame == [step |-> 0, events |-> <<>>]

PipeInit ==
    /\ metadata \in {[t \in {"A"} |-> tt] : tt \in PipeTriggers}
    /\ triggers = load_triggers_from_metadata(EmptyDict, metadata).triggers
    /\ store = [t \in {"A"} |-> DictSet(EmptyDict, 1, StoredRow)]
    /\ seq = [t \in {"A"} |-> 1]
    /\ clock = 1
    /\ calls = 0
    /\ last = NoCall
    /\ threads = NoFrame

PipeAt(step) ==
    /\ threads.step > 0
    /\ Pipeline(threads.call.op)[threads.step] = step

TypeOfCall(call) ==
    CASE call.op = "insert" -> ON_INSERT
      [] call.op = "update" -> ON_UPDATE
      [] call.op = "delete" -> ON_DELETE

\* the call returns or is left by an exception
PipeReturn(events, raised, result) ==
    /\ threads' = [step |-> 0, call |-> threads.call, before |-> threads.before,
                   events |-> events]
    /\ last' = [op |-> threads.call.op, table_name |-> "A", args |-> threads.call,
                raised |-> raised, result |-> result, events |-> events]

\* the call moves on to its next statement
PipeGoto(frame) ==
    IF frame.step > Len(Pipeline(frame.call.op))
    THEN PipeReturn(frame.events, FALSE, frame.result)
    ELSE threads' = frame /\ UNCHANGED last

PipeStart(call) ==
    /\ threads.step = 0
    /\ calls < MaxCalls
    /\ call.op = "insert" => seq["A"] < MaxId
    /\ calls' = calls + 1
    /\ threads' = [step |-> 1, call |-> call, events |-> <<>>, before |-> store["A"],
                   old_record |-> None, trigger_result |-> None, result |-> None]
    /\ UNCHANGED <<triggers, metadata, store, seq, clock, last>>

\* update line 159-161, delete line 229-231
PipeRead ==
    /\ PipeAt("read")
    /\ \E old_record \in {get_by_id(store["A"], threads.call.record_id)} :
          IF ~old_record.success
          THEN PipeReturn(Append(threads.events, "read"), FALSE, old_record)
          ELSE PipeGoto([threads EXCEPT !.step = @ + 1,
                                        !.events = Append(@, "read"),
                                        !.old_record = old_record])
    /\ UNCHANGED <<triggers, metadata, store, seq, clock, calls>>

\* the record the call hands to execute_trigger: insert 91-96, update 163-176,
\* delete 239-244
PipeRecord(frame) ==
    CASE frame.call.op = "insert" -> frame.call.record
      [] frame.call.op = "update" ->
            DictSet(DictUpdate(frame.old_record.record, frame.call.updates),
                    "updated_at", IsoNow(clock))
      [] frame.call.op = "delete" -> frame.old_record.record

PipeOldRecord(frame) ==
    IF frame.call.op = "insert" THEN None ELSE frame.old_record.record

PipeTriggerResult(frame) ==
    execute_trigger(triggers, "A", TypeOfCall(frame.call),
                    PipeRecord(frame), PipeOldRecord(frame))

\* execute_trigger lines 88-92: the lookup, and the return when no trigger is
\* registered
PipeLookup ==
    /\ PipeAt("lookup")
    /\ IF has_trigger(triggers, "A", TypeOfCall(threads.call))
       THEN PipeGoto([threads EXCEPT !.step = @ + 1, !.events = Append(@, "lookup")])
       ELSE PipeGoto([threads EXCEPT !.step = @ + 2, !.events = Append(@, "lookup"),
                                     !.trigger_result = PipeTriggerResult(threads)])
    /\ UNCHANGED <<triggers, metadata, store, seq, clock, calls>>

\* execute_trigger lines 94-121 and the check of its result: insert 98-103,
\* update 178-182, delete 246-250
PipeEvaluate ==
    /\ PipeAt("evaluate")
    /\ \E trigger_result \in {PipeTriggerResult(threads)} :
          LET events == Append(threads.events, "evaluate")
          IN  IF trigger_result.raised
              THEN PipeReturn(events, TRUE, None)
              ELSE IF ~trigger_result.success
              THEN PipeReturn(events, FALSE,
                              [success |-> FALSE, errors |-> trigger_result.errors])
              ELSE IF threads.call.op # "delete" /\ ~IsDict(trigger_result.record)
              THEN PipeReturn(events, TRUE, None)
              ELSE PipeGoto([threads EXCEPT !.step = @ + 1, !.events = events,
                                            !.trigger_result = trigger_result])
    /\ UNCHANGED <<triggers, metadata, store, seq, clock, calls>>

\* what the statement of the call does: insert 105-136, update 184-212,
\* delete 252-263
PipeOutcome(frame) ==
    LET trigger_result ==
            IF frame.trigger_result = None
            THEN [raised |-> FALSE, success |-> TRUE, executed |-> FALSE,
                  record |-> Dict(PipeRecord(frame))]
            ELSE frame.trigger_result
    IN  CASE frame.call.op = "insert" ->
                InsertPersist(store["A"], seq["A"], clock, trigger_result)
          [] frame.call.op = "update" ->
                UpdatePersist(store["A"], seq["A"], frame.call.record_id,
                              frame.old_record.record, trigger_result)
          [] frame.call.op = "delete" ->
                Outcome([success |-> TRUE, deleted_record |-> frame.old_record.record,
                         trigger_executed |-> trigger_result.executed],
                        FALSE, SqlDelete(store["A"], frame.call.record_id), seq["A"],
                        TRUE, None, trigger_result)

PipePersist ==
    /\ PipeAt("persist")
    /\ \E out \in {PipeOutcome(threads)} :
          /\ store' = [store EXCEPT !["A"] = out.rows]
          /\ seq' = [seq EXCEPT !["A"] = out.seq]
          /\ PipeGoto([threads EXCEPT !.step = @ + 1, !.events = Append(@, "write"),
                                      !.result = out.result])
    /\ UNCHANGED <<triggers, metadata, clock, calls>>

PipeNext ==
    \/ \E call \in PipeCalls : PipeStart(call)
    \/ PipeRead
    \/ PipeLookup
    \/ PipeEvaluate
    \/ PipePersist
    \/ Tick

PipeSpec == PipeInit /\ [][PipeNext]_vars

\* the positions of an event among the steps a call has taken
Positions(events, e) == {i \in DOMAIN events : events[i] = e}

\* C24: within every mutation call the steps are ordered: the read of the
\* current row (update and delete only), then the trigger lookup and the
\* complete evaluation of the snippet, then persistence.  No storage write
\* of the call happens before the snippet has run to completion, and a call
\* issues at most one storage write.
Thm_C24 ==
    LET ev == threads.events
        op == threads.call.op
    IN  ev # <<>> =>
          /\ Cardinality(Positions(ev, "write")) <= 1
          /\ \A w \in Positions(ev, "write") :
                /\ \E l \in Positions(ev, "lookup") : l < w
                /\ has_trigger(triggers, "A", TypeOfCall(threads.call)) =>
                      \E x \in Positions(ev, "evaluate") : x < w
                /\ w = Len(ev)
          /\ \A l \in Positions(ev, "lookup") :
                op \in {"update", "delete"} => \E r \in Positions(ev, "read") : r < l
          /\ \A x \in Positions(ev, "evaluate") : \E l \in Positions(ev, "lookup") : l < x
          /\ Positions(ev, "write") = {} => store["A"] = threads.before

Wit_C24 ==
    /\ threads.step = 0
    /\ threads.events = <<"read", "lookup", "evaluate", "write">>
    /\ threads.call.op = "update"
    /\ store["A"] # threads.before

\* the last call is a mutation call that got to the trigger stage, on a
\* table whose metadata holds a valid trigger for the call's event kind
CallOnStoredTrigger ==
    /\ IsMutation
    /\ last.trigger_result # None
    /\ last.table_name \in DOMAIN metadata
    /\ metadata[last.table_name][TypeOfLast] # None
    /\ validate_code(metadata[last.table_name][TypeOfLast]).valid

Orig_C26 ==
    (last.op = "update" /\ Succeeded) =>
        LET got == get_by_id(RowsNow, last.args.record_id)
        IN  /\ got.success
            /\ \A k \in DOMAIN last.result.record :
                  /\ k \in DOMAIN got.record
                  /\ got.record[k] = last.result.record[k]

\* C27: whenever execute_trigger reports success, the record it returns is
\* a key-to-value map, also when the snippet rebinds or deletes the name
\* record, so that the pipeline can build its statement from it.
Orig_C27 ==
    (ReachedTrigger /\ last.trigger_result.success) =>
        /\ IsDict(last.trigger_result.record)
        /\ ~last.raised

\* execute_trigger hands back the dict it was given, not a copy of it: when
\* no trigger is registered (lines 88-92), when the snippet failed (107-112),
\* and when the snippet deleted the name record (the default of line 114)
SameObjectReturned(trg, table_name, trigger_type, record, old_record) ==
    IF ~has_trigger(trg, table_name, trigger_type) THEN TRUE
    ELSE LET result == execute(trg[table_name][trigger_type],
                               [record |-> Dict(record),
                                old_record |-> IF old_record = None THEN None
                                               ELSE Dict(old_record)])
         IN  /\ ~result.raised
             /\ ~result.success \/ result.context.record = Unbound

\* the caller's dict after insert has returned: line 122 stores the engine's
\* id in modified_record, which is the caller's dict when execute_trigger
\* handed it back
caller_record_after_insert(trg, rows, sq, now, table_name, record) ==
    LET out == insert(trg, rows, sq, now, table_name, record)
    IN  IF /\ ~out.raised
           /\ out.result.success
           /\ SameObjectReturned(trg, table_name, ON_INSERT, record, None)
        THEN DictSet(record, "id", out.result.id)
        ELSE record

\* C28: insert never modifies the map the caller passed in: after the call,
\* successful or not, with or without a registered trigger, the caller's map
\* has the keys and values it had before.
Orig_C28 ==
    last.op = "insert" =>
        caller_record_after_insert(triggers, last.before, last.seq_before, last.now,
                                   last.table_name, last.args.record)
            = last.args.record

\* C29: reload_triggers is all-or-nothing: when a trigger source stored in
\* the table metadata fails validation, the reload fails and the registry
\* answers every lookup as it did before the call; no part of the metadata's
\* triggers is newly registered or replaced.
Orig_C29 ==
    (last.op = "reload_triggers" /\ last.raised) =>
        \A t \in Tables, e \in TriggerType :
            get_trigger(triggers, t, e) = get_trigger(last.before, t, e)

----------------------------------------------------------------------------
(* core/i18n.py: TranslationManager (I18nSpec).  store holds the rows of   *)
(* the global table "Translation", keyed by its unique index               *)
(* (language_code, context, key); threads holds the manager object: its    *)
(* _cache and its current_language.                                        *)

MaxI18nCalls == 3

\* str.lower() on the spellings of a language code
Lower(s) ==
    CASE s = "ES" -> "es"
      [] s = "Es" -> "es"
      [] s = "EN" -> "en"
      [] OTHER -> s

LanguageCodes == {"es", "ES", "en"}
Contexts == {"button"}
Keys == {"save"}
Values == {"Guardar", "Salvar", ""}

\* f"{language_code}:{context}"
CacheKey(language_code, context) == language_code \o ":" \o context

\* the truth value of a str
Truthy(s) == s # ""

\* add_translation: the upsert of lines 286-291 and the cache entry dropped in
\* lines 294-296
add_translation(rows, cache, language_code, context, key, value) ==
    [result |-> TRUE,
     rows |-> DictSet(rows, <<Lower(language_code), context, key>>, value),
     cache |-> IF CacheKey(language_code, context) \in DOMAIN cache
               THEN DictDel(cache, CacheKey(language_code, context))
               ELSE cache]

\* _load_translations_to_cache
load_translations_to_cache(rows, cache, language_code, context) ==
    LET found == {k \in Keys : <<language_code, context, k>> \in DOMAIN rows}
    IN  DictSet(cache, CacheKey(language_code, context),
                [k \in found |-> rows[<<language_code, context, k>>]])

\* the cache after `if cache_key not in self._cache: load`
Cached(rows, cache, language_code, context) ==
    IF CacheKey(language_code, context) \in DOMAIN cache
    THEN cache
    ELSE load_translations_to_cache(rows, cache, language_code, context)

\* dict.get(key) followed by `if translation:`
Found(entry, key) == key \in DOMAIN entry /\ Truthy(entry[key])

\* translate(key, context, language, fallback): the text returned and the
\* cache it leaves
translate(rows, cache, current_language, key, context, language, fallback) ==
    LET lang == Lower(IF language = None THEN current_language ELSE language.s)
        c1 == Cached(rows, cache, lang, context)
        e1 == c1[CacheKey(lang, context)]
    IN  IF Found(e1, key) THEN [result |-> e1[key], cache |-> c1]
        ELSE LET c2 == IF lang # "en" THEN Cached(rows, c1, "en", context) ELSE c1
             IN  IF lang # "en" /\ Found(c2[CacheKey("en", context)], key)
                 THEN [result |-> c2[CacheKey("en", context)][key], cache |-> c2]
                 ELSE [result |-> IF fallback # None THEN fallback.s ELSE key,
                       cache |-> c2]

\* Database(":memory:") and TranslationManager(db): the table exists and is
\* empty, nothing is cached
I18nInit ==
    /\ metadata = [t \in {"Translation"} |-> NoTriggers]
    /\ triggers = EmptyDict
    /\ store = [t \in {"Translation"} |-> EmptyDict]
    /\ seq = [t \in {"Translation"} |-> 0]
    /\ clock = 1
    /\ calls = 0
    /\ last = NoCall
    /\ threads = [cache |-> EmptyDict, current_language |-> "en"]

AddTranslation(language_code, context, key, value) ==
    /\ calls < MaxI18nCalls
    /\ \E r \in {add_translation(store["Translation"], threads.cache,
                                 language_code, context, key, value)} :
          /\ store' = [store EXCEPT !["Translation"] = r.rows]
          /\ threads' = [threads EXCEPT !.cache = r.cache]
          /\ last' = [op |-> "add_translation",
                      args |-> [language_code |-> language_code, context |-> context,
                                key |-> key, value |-> value],
                      result |-> r.result]
    /\ calls' = calls + 1
    /\ UNCHANGED <<triggers, metadata, seq, clock>>

Translate(key, context, language) ==
    /\ calls < MaxI18nCalls
    /\ \E r \in {translate(store["Translation"], threads.cache, threads.current_language,
                           key, context, language, None)} :
          /\ threads' = [threads EXCEPT !.cache = r.cache]
          /\ last' = [op |-> "translate",
                      args |-> [key |-> key, context |-> context, language |-> language],
                      result |-> r.result]
    /\ calls' = calls + 1
    /\ UNCHANGED <<triggers, metadata, store, seq, clock>>

\* set_language
SetLanguage(language_code) ==
    /\ calls < MaxI18nCalls
    /\ threads.current_language # Lower(language_code)
    /\ threads' = [threads EXCEPT !.current_language = Lower(language_code)]
    /\ last' = [op |-> "set_language", args |-> [language_code |-> language_code]]
    /\ calls' = calls + 1
    /\ UNCHANGED <<triggers, metadata, store, seq, clock>>

I18nNext ==
    \/ \E l \in LanguageCodes, c \in Contexts, k \in Keys, v \in Values :
          AddTranslation(l, c, k, v)
    \/ \E k \in Keys, c \in Contexts, l \in {None} \cup {Str(x) : x \in LanguageCodes} :
          Translate(k, c, l)
    \/ \E l \in LanguageCodes : SetLanguage(l)

I18nSpec == I18nInit /\ [][I18nNext]_vars

\* C30: the translation cache never serves a stale value: after
\* add_translation(language_code, context, key, value) has returned True
\* for a non-empty value, translate(key, context, language=language_code) on
\* the same manager returns value, for every spelling of language_code and
\* whether or not the language and context were cached before.
Orig_C30 ==
    (/\ last.op = "add_translation"
     /\ last.result = TRUE
     /\ Truthy(last.args.value)) =>
        translate(store["Translation"], threads.cache, threads.current_language,
                  last.args.key, last.args.context, Str(last.args.language_code),
                  None).result = last.args.value

====
